---- MODULE Spec2Model ----
(***************************************************************************)
(* Request-signature validation of litestar: the signature model           *)
(* (litestar/_signature/model.py).  Strings are sequences of one-character *)
(* strings, so that str.join, str.startswith, str.replace and str.split    *)
(* are computed as Python computes them.                                   *)
(***************************************************************************)
EXTENDS Naturals, Sequences, FiniteSets, TLC

VARIABLES
    type_decoder,       \* the "_decoder" attribute of every type object (shared, module-global)
    signature_models,   \* handler -> the signature model built for it, or NotBuilt
    frame,              \* the call being made: its operation and its arguments
    outcome,            \* what the call returned or raised
    middleware,         \* the LoggingMiddleware call in progress: its config and position
    scope_state,        \* the litestar state of the request's scope
    logger,             \* the entries given to logger.info, in order
    sent                \* the messages given to the underlying send, in order

signature_vars == <<type_decoder, signature_models, frame, outcome>>
logging_vars == <<middleware, scope_state, logger, sent>>
vars == <<type_decoder, signature_models, frame, outcome,
          middleware, scope_state, logger, sent>>

\* no request is going through the LoggingMiddleware
NoLogging ==
    /\ middleware = [pc |-> "none"]
    /\ scope_state = <<>>
    /\ logger = <<>>
    /\ sent = <<>>

----------------------------------------------------------------------------
(* Bounds of the model.                                                    *)

\* longest key path handed to _build_error_message
MaxKeys == 3
\* longest list of messages handed to _create_exception
MaxMessages == 3

----------------------------------------------------------------------------
(* Python strings.                                                         *)

S_data == <<"d", "a", "t", "a">>
S_datax == <<"d", "a", "t", "a", "x">>
S_xdata == <<"x", "d", "a", "t", "a">>
S_x == <<"x">>
S_id == <<"i", "d">>
S_dep == <<"d", "e", "p">>
S_dot == <<".">>
S_data_dot == <<"d", "a", "t", "a", ".">>
\* " - ", the separator msgspec puts before the path of a failure
S_sep == <<" ", "-", " ">>
S_empty == <<>>

\* str.startswith
startswith(s, prefix) ==
    /\ Len(prefix) <= Len(s)
    /\ SubSeq(s, 1, Len(prefix)) = prefix

\* sep.join(keys)
RECURSIVE join(_, _)
join(sep, keys) ==
    IF Len(keys) = 0 THEN S_empty
    ELSE IF Len(keys) = 1 THEN keys[1]
    ELSE keys[1] \o sep \o join(sep, Tail(keys))

\* str.replace(old, new): every non-overlapping occurrence, leftmost first
RECURSIVE replace(_, _, _)
replace(s, old, new) ==
    IF Len(s) = 0 THEN S_empty
    ELSE IF startswith(s, old)
         THEN new \o replace(SubSeq(s, Len(old) + 1, Len(s)), old, new)
         ELSE <<Head(s)>> \o replace(Tail(s), old, new)

\* str.split(sep)[0]: the text before the first occurrence of sep
RECURSIVE split_first(_, _)
split_first(s, sep) ==
    IF Len(s) = 0 THEN S_empty
    ELSE IF startswith(s, sep) THEN S_empty
    ELSE <<Head(s)>> \o split_first(Tail(s), sep)

\* truth value of an optional string: None and "" are both false
truthy(s) == Len(s) > 0

----------------------------------------------------------------------------
(* ErrorMessage: a TypedDict with "message" and the optional "key" and     *)
(* "source"; a function whose domain holds the keys that are set.          *)

BODY == "body"
QUERY == "query"
COOKIE == "cookie"
HEADER == "header"

\* kwarg_definition of a field: its class, and for a ParameterKwarg the
\* cookie and header names (empty when not set)
NoKwarg == [class |-> "None", cookie |-> S_empty, header |-> S_empty]
ParameterKwarg(cookie, header) ==
    [class |-> "ParameterKwarg", cookie |-> cookie, header |-> header]
BodyKwarg == [class |-> "BodyKwarg", cookie |-> S_empty, header |-> S_empty]

\* parameter_source with the header looked at before the cookie
parameter_source_header_first(kwarg_definition) ==
    IF truthy(kwarg_definition.header) THEN HEADER
    ELSE IF truthy(kwarg_definition.cookie) THEN COOKIE
    ELSE QUERY

\* the source chosen for a declared field with a ParameterKwarg
parameter_source(kwarg_definition) ==
    IF truthy(kwarg_definition.cookie) THEN COOKIE
    ELSE IF truthy(kwarg_definition.header) THEN HEADER
    ELSE QUERY

\* SignatureModel._build_error_message; fields is cls._fields as a function
\* from field name to kwarg_definition
_build_error_message(fields, keys, exc_msg, query_params) ==
    LET message == "message" :> split_first(exc_msg, S_sep)
        key == join(S_dot, keys)
    IN  IF Len(keys) = 0 THEN message
        ELSE IF startswith(keys[1], S_data)
             THEN message @@ ("key" :> replace(key, S_data_dot, S_empty))
                          @@ ("source" :> BODY)
        ELSE IF key \in query_params
             THEN message @@ ("key" :> key) @@ ("source" :> QUERY)
        ELSE IF key \in DOMAIN fields /\ fields[key].class = "ParameterKwarg"
             THEN message @@ ("key" :> key)
                          @@ ("source" :> parameter_source(fields[key]))
        ELSE message @@ ("key" :> key)

----------------------------------------------------------------------------
(* Exceptions raised to the caller and connections.                        *)

ValidationException(detail, extra) ==
    [type |-> "ValidationException", detail |-> detail, extra |-> extra]
\* InternalServerException(): no detail, no extra
InternalServerException ==
    [type |-> "InternalServerException", detail |-> <<>>, extra |-> <<>>]

\* ScopeType.WEBSOCKET
WEBSOCKET == "websocket"

\* an ASGI connection: a Request has a method, a WebSocket has none
Connection(has_method, method, url, query_params) ==
    [has_method |-> has_method, method |-> method, url |-> url,
     query_params |-> query_params]

\* the test of the comprehension of _create_exception
is_client_error(err_message, dependency_name_set) ==
    \/ "key" \in DOMAIN err_message /\ err_message.key \notin dependency_name_set
    \/ "key" \notin DOMAIN err_message

\* _create_exception reporting only the first client error
_create_exception_first_only(dependency_name_set, connection, messages) ==
    LET method == IF connection.has_method THEN connection.method ELSE WEBSOCKET
        keep(err_message) == is_client_error(err_message, dependency_name_set)
        client_errors == SelectSeq(messages, keep)
    IN  IF Len(client_errors) > 0
        THEN ValidationException(
                 <<"Validation failed for", method, connection.url>>,
                 <<Head(client_errors)>>)
        ELSE InternalServerException

\* _create_exception reporting every message, the dependencies' too
_create_exception_unfiltered(dependency_name_set, connection, messages) ==
    LET method == IF connection.has_method THEN connection.method ELSE WEBSOCKET
        keep(err_message) == is_client_error(err_message, dependency_name_set)
        client_errors == SelectSeq(messages, keep)
    IN  IF Len(client_errors) > 0
        THEN ValidationException(
                 <<"Validation failed for", method, connection.url>>, messages)
        ELSE InternalServerException

\* SignatureModel._create_exception
_create_exception(dependency_name_set, connection, messages) ==
    LET method == IF connection.has_method THEN connection.method ELSE WEBSOCKET
        keep(err_message) == is_client_error(err_message, dependency_name_set)
        client_errors == SelectSeq(messages, keep)
    IN  IF Len(client_errors) > 0
        THEN ValidationException(
                 <<"Validation failed for", method, connection.url>>, client_errors)
        ELSE InternalServerException

----------------------------------------------------------------------------
(* Outcomes of a call.                                                     *)

Pending == [kind |-> "pending"]
Returned(value) == [kind |-> "return", value |-> value]
Raised(exception) == [kind |-> "raise", exception |-> exception]

NoModels == <<>>
NoDecoders == <<>>

----------------------------------------------------------------------------
(* Types, values and the decoding hook.                                    *)

\* the type objects of the model; PosixPath is a subclass of Path, Custom is
\* a user class that only a type decoder or the default deserializer can build
Types == {"int", "str", "NoneType", "dict", "Path", "PosixPath", "Custom"}
mro(t) == IF t = "PosixPath" THEN <<"PosixPath", "Path">> ELSE <<t>>

\* a value: its class, its content and who made it ("raw": the request)
Value(cls, v, by) == [cls |-> cls, v |-> v, by |-> by]
Raw(cls, v) == Value(cls, v, "raw")
NoneValue == Raw("NoneType", "None")

isinstance(value, t) == \E i \in 1..Len(mro(value.cls)) : mro(value.cls)[i] = t

\* an exception: its type, str(exc) and, for the structured failure, its errors
Exception(type, text, errors) == [type |-> type, text |-> text, errors |-> errors]

\* the "_decoder" attribute of the type objects: "unset" or a decoder
Unset == "unset"
hasattr_decoder(attrs, t) == \E i \in 1..Len(mro(t)) : attrs[mro(t)[i]] # Unset
getattr_decoder(attrs, t) ==
    LET i == CHOOSE i \in 1..Len(mro(t)) :
                 /\ attrs[mro(t)[i]] # Unset
                 /\ \A j \in 1..(i - 1) : attrs[mro(t)[j]] = Unset
    IN  attrs[mro(t)[i]]

T_bad == <<"b", "a", "d">>
T_boom == <<"b", "o", "o", "m">>
T_unsupported == <<"U", "n", "s", "u", "p", "p", "o", "r", "t", "e", "d">>

\* What a callable does with (target_type, value).  "t(v)" is the decoder of
\* DEFAULT_TYPE_DECODERS, the constructor: it builds the instance from a str
\* and raises TypeError otherwise.  The other callables (a handler's type
\* decoders, the route handler's default deserializer) are supplied by the
\* application: here they build the instance from "5", reject "abc" with a
\* ValueError, report "errs" as a structured failure, fail on "boom" with a
\* RuntimeError and raise TypeError on what is no str.
invoke(callable, target_type, value) ==
    IF value.cls # "str"
    THEN Raised(Exception("TypeError", T_unsupported, <<>>))
    ELSE IF callable = "t(v)" \/ value.v = "5"
    THEN Returned(Value(target_type, value.v, callable))
    ELSE IF value.v = "abc"
    THEN Raised(Exception("ValueError", T_bad, <<>>))
    ELSE IF value.v = "errs"
    THEN Raised(Exception("ExtendedMsgSpecValidationError", T_bad,
                          <<[loc |-> <<S_x>>, msg |-> T_bad]>>))
    ELSE Raised(Exception("RuntimeError", T_boom, <<>>))

\* _deserializer asking the type for its decoder before looking at the value
_deserializer_decoder_first(attrs, target_type, value, default_deserializer) ==
    IF hasattr_decoder(attrs, target_type)
    THEN [result |-> invoke(getattr_decoder(attrs, target_type), target_type, value),
          invoked |-> <<getattr_decoder(attrs, target_type)>>]
    ELSE IF isinstance(value, target_type)
    THEN [result |-> Returned(value), invoked |-> <<>>]
    ELSE [result |-> invoke(default_deserializer, target_type, value),
          invoked |-> <<default_deserializer>>]

\* _deserializer: the result and the callables it invoked; attrs holds the
\* "_decoder" attributes of the type objects
_deserializer(attrs, target_type, value, default_deserializer) ==
    IF isinstance(value, target_type)
    THEN [result |-> Returned(value), invoked |-> <<>>]
    ELSE IF hasattr_decoder(attrs, target_type)
    THEN [result |-> invoke(getattr_decoder(attrs, target_type), target_type, value),
          invoked |-> <<getattr_decoder(attrs, target_type)>>]
    ELSE [result |-> invoke(default_deserializer, target_type, value),
          invoked |-> <<default_deserializer>>]

----------------------------------------------------------------------------
(* _deserializer applied to every target type, value and decoder           *)
(* attribute of the bounded input sets.                                    *)

HookTypes == {"Path", "PosixPath", "Custom"}
Decoders == {"t(v)", "decA", "decB"}
DefaultDeserializers == {"default_deserializer"}
RawStrings == {Raw("str", p) : p \in {"5", "abc", "errs", "boom"}}
HookValues ==
    RawStrings \cup {NoneValue}
        \cup {Value(t, "5", by) : t \in HookTypes, by \in {"raw", "decA"}}
DecoderAttributes ==
    {[t \in Types |-> IF t \in HookTypes THEN a[t] ELSE Unset] :
        a \in [HookTypes -> Decoders \cup {Unset}]}

DeserializerInit ==
    /\ signature_models = NoModels
    /\ outcome = Pending
    /\ type_decoder \in DecoderAttributes
    /\ frame \in [op : {"_deserializer"}, target_type : HookTypes,
                  value : HookValues, default_deserializer : DefaultDeserializers]
    /\ NoLogging

Deserialize ==
    /\ frame.op = "_deserializer"
    /\ outcome = Pending
    /\ outcome' = _deserializer(type_decoder, frame.target_type, frame.value,
                                frame.default_deserializer)
                      @@ [kind |-> "done"]
    /\ UNCHANGED <<type_decoder, signature_models, frame>>
    /\ UNCHANGED logging_vars

DeserializerNext == Deserialize

SpecDeserializer == DeserializerInit /\ [][DeserializerNext]_vars

\* C7: an instance of the target type is returned unchanged and nothing is
\* invoked; otherwise a type carrying a custom decoder gets that decoder's
\* result and the default deserializer is not invoked; otherwise the result is
\* the default deserializer's.
C7_StrictPriority ==
    (frame.op = "_deserializer" /\ outcome.kind = "done") =>
        LET t == frame.target_type
            already == frame.value.cls = t \/ (frame.value.cls = "PosixPath" /\ t = "Path")
            carried == IF type_decoder[t] # Unset THEN type_decoder[t]
                       ELSE IF t = "PosixPath" THEN type_decoder["Path"] ELSE Unset
        IN  IF already
            THEN outcome.result = Returned(frame.value) /\ outcome.invoked = <<>>
            ELSE IF carried # Unset
            THEN /\ outcome.invoked = <<carried>>
                 /\ outcome.result = invoke(carried, t, frame.value)
            ELSE /\ outcome.invoked = <<frame.default_deserializer>>
                 /\ outcome.result = invoke(frame.default_deserializer, t, frame.value)

C7_Witness ==
    /\ frame.op = "_deserializer" /\ outcome.kind = "done"
    /\ frame.target_type = "Custom"
    /\ frame.value = Value("Custom", "5", "raw")
    /\ type_decoder["Custom"] = "decA"
    /\ outcome.invoked = <<>>
    /\ outcome.result.kind = "return"

----------------------------------------------------------------------------
(* Annotations and SignatureModel._create_annotation.                      *)

\* longest declared union, its none member included
MaxUnion == 3

AnyAnnotation == [kind |-> "Any"]
TypeAnnotation(t) == [kind |-> "type", type |-> t]
NoneAnnotation == TypeAnnotation("NoneType")
\* a declared union: its members are no unions themselves
UnionAnnotation(args) == [kind |-> "Union", args |-> args]
\* Annotated[annotation, meta_data]
Annotated(annotation, meta_data) ==
    [kind |-> "Annotated", arg |-> annotation, meta |-> meta_data]

\* typing.Union[args]: nested unions are flattened, repeated members are
\* dropped and a union of one member is that member
RECURSIVE flatten(_)
flatten(args) ==
    IF Len(args) = 0 THEN <<>>
    ELSE (IF Head(args).kind = "Union" THEN Head(args).args ELSE <<Head(args)>>)
             \o flatten(Tail(args))
RECURSIVE deduplicate(_)
deduplicate(args) ==
    IF Len(args) = 0 THEN <<>>
    ELSE LET front == deduplicate(SubSeq(args, 1, Len(args) - 1))
             last == args[Len(args)]
         IN  IF \E i \in 1..Len(front) : front[i] = last THEN front
             ELSE Append(front, last)
typing_Union(args) ==
    LET members == deduplicate(flatten(args))
    IN  IF Len(members) = 1 THEN members[1] ELSE UnionAnnotation(members)
\* typing.Optional[annotation]
typing_Optional(annotation) == typing_Union(<<annotation, NoneAnnotation>>)

\* no constraint metadata, and the msgspec.Meta built for a KwargDefinition
NoMeta == [present |-> FALSE]
Meta(extra) == [present |-> TRUE, extra |-> extra]

\* a FieldDefinition: a declared parameter or a member of its union
FieldDefinition(name, annotation, has_default, default, kwarg_definition) ==
    [name |-> name, annotation |-> annotation, has_default |-> has_default,
     default |-> default, kwarg_definition |-> kwarg_definition]
is_union(field_definition) == field_definition.annotation.kind = "Union"
is_optional(field_definition) ==
    /\ is_union(field_definition)
    /\ \E i \in 1..Len(field_definition.annotation.args) :
           field_definition.annotation.args[i] = NoneAnnotation
\* FieldDefinition.inner_types: one unnamed FieldDefinition for each member
inner_types(field_definition) ==
    [i \in 1..Len(field_definition.annotation.args) |->
        FieldDefinition(S_empty, field_definition.annotation.args[i],
                        FALSE, NoneValue, NoKwarg)]

\* _normalize_annotation: the data parameter of a handler with a data DTO is
\* not validated here, every other annotation is kept
_normalize_annotation(field_definition, has_data_dto) ==
    IF has_data_dto /\ field_definition.name = S_data THEN AnyAnnotation
    ELSE field_definition.annotation

\* a type decoder: the types its predicate accepts and its decoder function
TypeDecoder(matches, decoder) == [matches |-> matches, decoder |-> decoder]
\* DEFAULT_TYPE_DECODERS: subclasses of Path (PurePath, ImmutableState, UUID),
\* decoded by calling the type
DEFAULT_TYPE_DECODERS == <<TypeDecoder({"Path", "PosixPath"}, "t(v)")>>

\* _get_decoder_for_type: the decoder of the first predicate that accepts the
\* type, Unset when there is none
_get_decoder_for_type(annotation, type_decoders) ==
    LET hits == {i \in 1..Len(type_decoders) :
                    /\ annotation.kind = "type"
                    /\ annotation.type \in type_decoders[i].matches}
    IN  IF hits = {} THEN Unset
        ELSE type_decoders[CHOOSE i \in hits : \A j \in hits : i <= j].decoder

\* the non-none members of a declared union, in order
non_none(members) ==
    LET keep(inner_type) == inner_type.annotation # NoneAnnotation
    IN  SelectSeq(members, keep)

\* the annotation of a parameter that is no union
plain_annotation(field_definition, has_data_dto, meta_data) ==
    LET annotation == _normalize_annotation(field_definition, has_data_dto)
    IN  IF annotation = AnyAnnotation THEN annotation
        ELSE IF meta_data.present THEN Annotated(annotation, meta_data)
        ELSE annotation

\* SignatureModel._create_annotation, the annotation it returns
_create_annotation(field_definition, has_data_dto, meta_data) ==
    LET annotation == _normalize_annotation(field_definition, has_data_dto)
    IN  IF annotation = AnyAnnotation THEN annotation
        ELSE IF is_union(field_definition)
        THEN LET members == non_none(inner_types(field_definition))
                 types == [i \in 1..Len(members) |->
                              plain_annotation(members[i], has_data_dto, meta_data)]
             IN  IF is_optional(field_definition)
                 THEN typing_Optional(types[1])
                 ELSE typing_Union(types)
        ELSE plain_annotation(field_definition, has_data_dto, meta_data)

\* SignatureModel._create_annotation, its setattr(annotation, "_decoder",
\* decoder): the types that get a decoder, each with its decoder
decorated_types(field_definition, has_data_dto, type_decoders) ==
    LET annotation == _normalize_annotation(field_definition, has_data_dto)
        members == IF is_union(field_definition)
                   THEN non_none(inner_types(field_definition))
                   ELSE <<field_definition>>
    IN  IF annotation = AnyAnnotation THEN {}
        ELSE {<<members[i].annotation.type,
                _get_decoder_for_type(members[i].annotation, type_decoders)>> :
                 i \in {j \in 1..Len(members) :
                           _get_decoder_for_type(members[j].annotation, type_decoders)
                               # Unset}}

\* the "_decoder" attributes after the setattr calls
setattr_decoders(attrs, decorated) ==
    [t \in DOMAIN attrs |->
        IF \E d \in decorated : d[1] = t
        THEN (CHOOSE d \in decorated : d[1] = t)[2]
        ELSE attrs[t]]

NoAttributes == [t \in Types |-> Unset]

----------------------------------------------------------------------------
(* _create_annotation applied to every declared annotation of the bounded  *)
(* input sets.                                                             *)

MemberTypes == {"int", "str", "Custom", "NoneType"}
Injective(f) == \A i, j \in DOMAIN f : i # j => f[i] # f[j]
DeclaredUnions ==
    {UnionAnnotation([i \in DOMAIN m |-> TypeAnnotation(m[i])]) :
        m \in {f \in UNION {[1..k -> MemberTypes] : k \in 2..MaxUnion} : Injective(f)}}
DeclaredAnnotations ==
    {AnyAnnotation} \cup {TypeAnnotation(t) : t \in {"int", "Path", "Custom"}}
        \cup DeclaredUnions
Registries ==
    {<<>>, <<TypeDecoder({"Custom"}, "decA")>>,
     <<TypeDecoder({"Custom", "Path"}, "decB"), TypeDecoder({"Custom"}, "decA")>>}
MetaData == {NoMeta, Meta(<<>>)}

AnnotationInit ==
    /\ signature_models = NoModels
    /\ outcome = Pending
    /\ type_decoder = NoAttributes
    /\ frame \in [op : {"_create_annotation"},
                  field_definition :
                      {FieldDefinition(n, a, FALSE, NoneValue, NoKwarg) :
                          n \in {S_id, S_data}, a \in DeclaredAnnotations},
                  has_data_dto : BOOLEAN,
                  type_decoders : {r \o DEFAULT_TYPE_DECODERS : r \in Registries},
                  meta_data : MetaData]
    /\ NoLogging

CreateAnnotation ==
    /\ frame.op = "_create_annotation"
    /\ outcome = Pending
    /\ outcome' = Returned(_create_annotation(
                      frame.field_definition, frame.has_data_dto, frame.meta_data))
    /\ type_decoder' = setattr_decoders(type_decoder,
                           decorated_types(frame.field_definition, frame.has_data_dto,
                                           frame.type_decoders))
    /\ UNCHANGED <<signature_models, frame>>
    /\ UNCHANGED logging_vars

AnnotationNext == CreateAnnotation

SpecAnnotation == AnnotationInit /\ [][AnnotationNext]_vars

\* the annotations a returned annotation accepts as alternatives
Alternatives(annotation) ==
    IF annotation.kind = "Union"
    THEN {annotation.args[i] : i \in 1..Len(annotation.args)}
    ELSE {annotation}

\* C10: the annotation of a union-typed parameter keeps every non-none member
\* as an alternative: the optional of the union of the normalized non-none
\* members when the union has a none member, their plain union otherwise.
C10_Original ==
    (/\ frame.op = "_create_annotation"
     /\ outcome.kind = "return"
     /\ is_union(frame.field_definition)
     /\ outcome.value # AnyAnnotation) =>
        LET members == non_none(inner_types(frame.field_definition))
            normalized == [i \in 1..Len(members) |->
                              plain_annotation(members[i], frame.has_data_dto,
                                               frame.meta_data)]
        IN  /\ \A i \in 1..Len(normalized) :
                   normalized[i] \in Alternatives(outcome.value)
            /\ outcome.value =
                   (IF is_optional(frame.field_definition)
                    THEN typing_Optional(typing_Union(normalized))
                    ELSE typing_Union(normalized))

----------------------------------------------------------------------------
(* msgspec.convert, as model.py calls it: strict=False, str_keys=True and  *)
(* dec_hook = _deserializer.  The texts are those of msgspec.              *)

\* the grave accent and the apostrophe, two characters that are named here
\* because a string literal cannot hold them
Backtick == "GRAVE"
Apostrophe == "APOSTROPHE"

\* the opening of "Expected ...", up to the type's opening grave accent
T_expected == <<"E", "x", "p", "e", "c", "t", "e", "d", " ", Backtick>>
\* the middle of "Expected ..., got ...", between the two quoted types
T_got == <<Backtick, ",", " ", "g", "o", "t", " ", Backtick>>
\* the closing grave accent
T_tick == <<Backtick>>
\* " - at " and the opening of the quoted path, "$."
T_at == <<" ", "-", " ", "a", "t", " ", Backtick, "$", ".">>
\* "Object missing required field " and the opening grave accent
T_missing == <<"O", "b", "j", "e", "c", "t", " ", "m", "i", "s", "s", "i", "n", "g", " ", "r", "e", "q", "u", "i", "r", "e", "d", " ", "f", "i", "e", "l", "d", " ", Backtick>>
\* the quote of the repr of a str
T_quote == <<Apostrophe>>
\* " | "
T_or == <<" ", "|", " ">>
\* what ERR_RE starts with: a grave accent, "$."
T_re_open == <<Backtick, "$", ".">>

\* the name msgspec gives a type in its messages
TypeName(t) ==
    CASE t = "int" -> <<"i", "n", "t">>
      [] t = "str" -> <<"s", "t", "r">>
      [] t = "NoneType" -> <<"n", "u", "l", "l">>
      [] t = "dict" -> <<"o", "b", "j", "e", "c", "t">>
      [] t = "Path" -> <<"P", "a", "t", "h">>
      [] t = "PosixPath" -> <<"P", "o", "s", "i", "x", "P", "a", "t", "h">>
      [] t = "Custom" -> <<"C", "u", "s", "t", "o", "m">>

\* msgspec.ValidationError: the text and, below the top level, " - at " and the path
ValidationError(text, path) ==
    Raised(Exception("ValidationError",
                     text \o (IF Len(path) = 0 THEN S_empty
                              ELSE T_at \o join(S_dot, path) \o T_tick),
                     <<>>))

RECURSIVE annotation_name(_)
annotation_name(annotation) ==
    CASE annotation.kind = "type" -> TypeName(annotation.type)
      [] annotation.kind = "Annotated" -> annotation_name(annotation.arg)
      [] annotation.kind = "Union" ->
             join(T_or, [i \in 1..Len(annotation.args) |->
                            annotation_name(annotation.args[i])])
      [] OTHER -> <<"A", "n", "y">>

\* the text of a value of the wrong type: Expected ..., got ...
expected(annotation, value, path) ==
    ValidationError(T_expected \o annotation_name(annotation) \o T_got
                        \o TypeName(value.cls) \o T_tick, path)

\* the types msgspec converts itself; every other type goes to dec_hook
NativeTypes == {"int", "str", "NoneType", "dict"}

\* a value converted to a native type, strict=False: a str of digits becomes
\* an int; a dict is a dict[str, int], converted key by key
convert_native(value, t, path) ==
    CASE t = "int" ->
             IF value.cls = "int" THEN Returned(value)
             ELSE IF value.cls = "str" /\ value.v = "5"
             THEN Returned(Value("int", "5", "msgspec"))
             ELSE expected(TypeAnnotation(t), value, path)
      [] t = "dict" ->
             IF value.cls # "dict" THEN expected(TypeAnnotation(t), value, path)
             ELSE IF value.v = "x=5" THEN Returned(Value("dict", "x=5", "msgspec"))
             ELSE expected(TypeAnnotation("int"), Raw("str", "abc"),
                           Append(path, S_x))
      [] OTHER ->
             IF value.cls = t THEN Returned(value)
             ELSE expected(TypeAnnotation(t), value, path)

\* a value converted to a type msgspec does not know: dec_hook is called, a
\* ValueError or TypeError it raises becomes a ValidationError, every other
\* exception is raised as it is, and the result has to be an instance
convert_custom(value, t, path, attrs, default_deserializer) ==
    LET hook == _deserializer(attrs, t, value, default_deserializer).result
    IN  IF hook.kind = "return"
        THEN IF isinstance(hook.value, t) THEN hook
             ELSE expected(TypeAnnotation(t), hook.value, path)
        ELSE IF hook.exception.type \in {"ValueError", "TypeError"}
        THEN ValidationError(hook.exception.text, path)
        ELSE hook

\* convert(value, type=annotation, strict=False, dec_hook=deserializer)
RECURSIVE convert_value(_, _, _, _, _)
convert_value(value, annotation, path, attrs, default_deserializer) ==
    CASE annotation.kind = "Any" -> Returned(value)
      [] annotation.kind = "Annotated" ->
             convert_value(value, annotation.arg, path, attrs, default_deserializer)
      [] annotation.kind = "type" ->
             IF annotation.type \in NativeTypes
             THEN convert_native(value, annotation.type, path)
             ELSE convert_custom(value, annotation.type, path, attrs,
                                 default_deserializer)
      [] annotation.kind = "Union" ->
             LET n == Len(annotation.args)
                 results == [i \in 1..n |->
                                convert_value(value, annotation.args[i], path, attrs,
                                              default_deserializer)]
                 exact == {i \in 1..n : annotation.args[i] = TypeAnnotation(value.cls)}
                 good == {i \in 1..n : results[i].kind = "return"}
                 thrown == {i \in 1..n :
                               /\ results[i].kind = "raise"
                               /\ results[i].exception.type # "ValidationError"}
                 first(S) == CHOOSE i \in S : \A j \in S : i <= j
             IN  IF exact # {} THEN Returned(value)
                 ELSE IF good # {} THEN results[first(good)]
                 ELSE IF thrown # {} THEN results[first(thrown)]
                 ELSE expected(annotation, value, path)

\* msgspec.NODEFAULT
NODEFAULT == Raw("NODEFAULT", "NODEFAULT")

\* convert(kwargs, cls, strict=False, dec_hook=deserializer, str_keys=True):
\* the items of kwargs are converted in the order of the dict (order), keys
\* that name no field are skipped, and the first failure is raised; then a
\* field that is not in kwargs takes its default, and one without default is
\* the failure.  struct_fields is the (name, annotation, default) list of
\* defstruct.
convert_struct(kwargs, order, struct_fields, attrs, default_deserializer) ==
    LET n == Len(struct_fields)
        index(name) == CHOOSE i \in 1..n : struct_fields[i].name = name
        declared(name) == \E i \in 1..n : struct_fields[i].name = name
        result(name) ==
            convert_value(kwargs[name], struct_fields[index(name)].annotation,
                          <<name>>, attrs, default_deserializer)
        failed == {k \in 1..Len(order) :
                      declared(order[k]) /\ result(order[k]).kind = "raise"}
        missing == {i \in 1..n :
                       /\ struct_fields[i].name \notin DOMAIN kwargs
                       /\ struct_fields[i].default = NODEFAULT}
        first(S) == CHOOSE i \in S : \A j \in S : i <= j
    IN  IF failed # {} THEN result(order[first(failed)])
        ELSE IF missing # {}
        THEN ValidationError(T_missing \o struct_fields[first(missing)].name \o T_tick,
                             <<>>)
        ELSE Returned([name \in {struct_fields[i].name : i \in 1..n} |->
                          IF name \in DOMAIN kwargs THEN result(name).value
                          ELSE struct_fields[index(name)].default])

\* to_dict leaving out the fields that are None
to_dict_exclude_none(struct) ==
    [name \in {f \in DOMAIN struct : struct[f] # NoneValue} |-> struct[name]]

\* SignatureModel.to_dict: msgspec.structs.asdict
to_dict(struct) == [name \in DOMAIN struct |-> struct[name]]

\* ERR_RE.search(text): the first T_re_open that has at least one character
\* between it and a grave accent ending the text; group(1) lies between
re_search(text) ==
    LET n == Len(text)
        starts == {i \in 1..n :
                      /\ i + Len(T_re_open) + 1 <= n
                      /\ SubSeq(text, i, i + Len(T_re_open) - 1) = T_re_open
                      /\ text[n] = T_tick[1]}
        i == CHOOSE i \in starts : \A j \in starts : i <= j
    IN  IF starts = {} THEN [match |-> FALSE, group |-> S_empty]
        ELSE [match |-> TRUE, group |-> SubSeq(text, i + Len(T_re_open), n - 1)]

\* str(KeyError(name)): the repr of the name
KeyError(name) == Exception("KeyError", T_quote \o name \o T_quote, <<>>)

\* SignatureModel._collect_errors: every field converted alone; model is the
\* signature model (its class attributes)
_collect_errors(model, kwargs, attrs, default_deserializer) ==
    LET n == Len(model.struct_fields)
        result(i) ==
            IF model.struct_fields[i].name \notin DOMAIN kwargs
            THEN Raised(KeyError(model.struct_fields[i].name))
            ELSE convert_value(kwargs[model.struct_fields[i].name],
                               model.struct_fields[i].annotation, <<>>, attrs,
                               default_deserializer)
        all == [i \in 1..n |->
                   [field_name |-> model.struct_fields[i].name, result |-> result(i)]]
        raised(entry) == entry.result.kind = "raise"
        exceptions == SelectSeq(all, raised)
    IN  [i \in 1..Len(exceptions) |->
            [field_name |-> exceptions[i].field_name,
             exc |-> exceptions[i].result.exception]]

\* cls._fields as _build_error_message reads it: name -> kwarg_definition
fields_of(model) ==
    [name \in {model._fields[i].name : i \in 1..Len(model._fields)} |->
        (CHOOSE f \in {model._fields[i] : i \in 1..Len(model._fields)} :
             f.name = name).kwarg_definition]

\* SignatureModel.parse_values_from_connection_kwargs
parse_values_from_connection_kwargs(model, connection, kwargs, order, attrs) ==
    LET default_deserializer == connection.default_deserializer
        converted == convert_struct(kwargs, order, model.struct_fields, attrs,
                                    default_deserializer)
        e == converted.exception
        structured ==
            [i \in 1..Len(e.errors) |->
                _build_error_message(fields_of(model), e.errors[i].loc,
                                     e.errors[i].msg, connection.query_params)]
        collected == _collect_errors(model, kwargs, attrs, default_deserializer)
        keys(i) ==
            IF re_search(collected[i].exc.text).match
            THEN <<collected[i].field_name, re_search(collected[i].exc.text).group>>
            ELSE <<collected[i].field_name>>
        replayed ==
            [i \in 1..Len(collected) |->
                _build_error_message(fields_of(model), keys(i), e.text,
                                     connection.query_params)]
    IN  IF converted.kind = "return" THEN Returned(to_dict(converted.value))
        ELSE IF e.type = "ExtendedMsgSpecValidationError"
        THEN Raised(_create_exception(model._dependency_name_set, connection,
                                      structured))
        ELSE IF e.type = "ValidationError"
        THEN Raised(_create_exception(model._dependency_name_set, connection,
                                      replayed))
        ELSE Raised(e)

----------------------------------------------------------------------------
(* _build_error_message applied to every key path, text, connection and    *)
(* field table of the bounded input sets.                                  *)

Segments == {S_data, S_datax, S_xdata, S_x}
KeyPaths == UNION {[1..n -> Segments] : n \in 0..MaxKeys}
Texts == {<<"e">>, <<"e", " ", "-", " ", "p">>}
QueryParamSets == SUBSET {S_x, S_xdata}
KwargDefinitions ==
    {NoKwarg, BodyKwarg, ParameterKwarg(S_empty, S_empty),
     ParameterKwarg(<<"c">>, S_empty), ParameterKwarg(S_empty, <<"h">>),
     ParameterKwarg(<<"c">>, <<"h">>)}
FieldTables == {<<>>} \cup [{S_x, S_datax} -> KwargDefinitions]

MessageInit ==
    /\ type_decoder = NoDecoders
    /\ signature_models = NoModels
    /\ outcome = Pending
    /\ frame \in [op : {"_build_error_message"}, fields : FieldTables,
                  keys : KeyPaths, exc_msg : Texts, query_params : QueryParamSets]
    /\ NoLogging

BuildErrorMessage ==
    /\ frame.op = "_build_error_message"
    /\ outcome = Pending
    /\ outcome' = Returned(_build_error_message(
                      frame.fields, frame.keys, frame.exc_msg, frame.query_params))
    /\ UNCHANGED <<type_decoder, signature_models, frame>>
    /\ UNCHANGED logging_vars

MessageNext == BuildErrorMessage

SpecMessage == MessageInit /\ [][MessageNext]_vars

----------------------------------------------------------------------------
(* _create_exception applied to every list of messages of the bounded      *)
(* input sets.                                                             *)

MessagePool ==
    {"message" :> <<"e">>,
     ("message" :> <<"e">>) @@ ("key" :> S_id) @@ ("source" :> QUERY),
     ("message" :> <<"e">>) @@ ("key" :> S_dep),
     ("message" :> <<"p">>) @@ ("key" :> S_dep) @@ ("source" :> BODY),
     ("message" :> <<"e">>) @@ ("key" :> S_x) @@ ("source" :> COOKIE)}
MessageLists == UNION {[1..n -> MessagePool] : n \in 0..MaxMessages}
DependencyNameSets == SUBSET {S_dep, S_x}
Connections ==
    {Connection(TRUE, m, u, {}) : m \in {"GET", "POST"}, u \in {"/a", "/b"}}
        \cup {Connection(FALSE, "", u, {}) : u \in {"/a", "/b"}}

ExceptionInit ==
    /\ type_decoder = NoDecoders
    /\ signature_models = NoModels
    /\ outcome = Pending
    /\ frame \in [op : {"_create_exception"},
                  dependency_name_set : DependencyNameSets,
                  connection : Connections, messages : MessageLists]
    /\ NoLogging

CreateException ==
    /\ frame.op = "_create_exception"
    /\ outcome = Pending
    /\ outcome' = Returned(_create_exception(
                      frame.dependency_name_set, frame.connection, frame.messages))
    /\ UNCHANGED <<type_decoder, signature_models, frame>>
    /\ UNCHANGED logging_vars

ExceptionNext == CreateException

SpecException == ExceptionInit /\ [][ExceptionNext]_vars

----------------------------------------------------------------------------
(* Claims about _create_exception, under SpecException.                    *)

ExceptionReturned == frame.op = "_create_exception" /\ outcome.kind = "return"

\* a message the claims call client-caused: no key, or a key that is no
\* dependency name
ClientCaused(m) ==
    "key" \notin DOMAIN m \/ m.key \notin frame.dependency_name_set
ClientIndexes == {i \in 1..Len(frame.messages) : ClientCaused(frame.messages[i])}

\* C2: when every message has a key and every key is a dependency name the
\* result is an InternalServerException with no per-field detail; otherwise it
\* is a ValidationException whose extra holds every client-caused message.
C2_ExceptionKind ==
    ExceptionReturned =>
        LET exc == outcome.value
        IN  IF ClientIndexes = {}
            THEN exc.type = "InternalServerException"
                 /\ exc.extra = <<>> /\ exc.detail = <<>>
            ELSE /\ exc.type = "ValidationException"
                 /\ Len(exc.extra) >= Cardinality(ClientIndexes)
                 /\ \A i \in ClientIndexes :
                        \E j \in 1..Len(exc.extra) : exc.extra[j] = frame.messages[i]

C2_Witness ==
    /\ ExceptionReturned
    /\ Cardinality(ClientIndexes) >= 2
    /\ Cardinality(ClientIndexes) < Len(frame.messages)
    /\ outcome.value.type = "ValidationException"
    /\ Len(outcome.value.extra) >= 2

\* C3 as stated: with a client-caused message present, the
\* ValidationException carries the full list of messages and its detail names
\* the HTTP method and the URL.
C3_Original ==
    (ExceptionReturned /\ ClientIndexes # {}) =>
        /\ outcome.value.type = "ValidationException"
        /\ outcome.value.extra = frame.messages
        /\ frame.connection.has_method =>
               outcome.value.detail[2] = frame.connection.method
        /\ outcome.value.detail[3] = frame.connection.url

\* C3 as amended: with a client-caused message present, the
\* ValidationException carries the client-caused messages of the attempt, in
\* their order, and none keyed by a dependency name; its detail names the URL
\* and the connection's method, or the websocket scope type for a connection
\* that has no method.
C3_ClientMessagesOnly ==
    (ExceptionReturned /\ ClientIndexes # {}) =>
        LET exc == outcome.value
            n == Len(exc.extra)
        IN  /\ exc.type = "ValidationException"
            /\ n = Cardinality(ClientIndexes)
            /\ \E at \in [1..n -> ClientIndexes] :
                   /\ \A j \in 1..n : exc.extra[j] = frame.messages[at[j]]
                   /\ \A j, k \in 1..n : j < k => at[j] < at[k]
            /\ exc.detail[2] = (IF frame.connection.has_method
                                THEN frame.connection.method ELSE WEBSOCKET)
            /\ exc.detail[3] = frame.connection.url

C3_Witness ==
    /\ ExceptionReturned
    /\ ClientIndexes # {}
    /\ \E i \in 1..Len(frame.messages) : ~ClientCaused(frame.messages[i])
    /\ ~frame.connection.has_method
    /\ outcome.value.type = "ValidationException"
    /\ Len(outcome.value.extra) < Len(frame.messages)

----------------------------------------------------------------------------
(* Claims about _build_error_message, under SpecMessage.                   *)

MessageBuilt ==
    /\ frame.op = "_build_error_message"
    /\ outcome.kind = "return"
    /\ Len(frame.keys) > 0

JoinedKey == join(S_dot, frame.keys)
SourceOf(m) == IF "source" \in DOMAIN m THEN m.source ELSE "unset"

\* the joined path without its leading "data." segment
WithoutLeadingData(s) ==
    IF startswith(s, S_data_dot) THEN SubSeq(s, Len(S_data_dot) + 1, Len(s)) ELSE s

\* C4: the message is body-sourced exactly when the first key equals "data";
\* then the key is the joined path less its leading "data." only, and
\* otherwise the key is the joined path.
C4_Original ==
    MessageBuilt =>
        /\ SourceOf(outcome.value) = BODY <=> frame.keys[1] = S_data
        /\ outcome.value.key =
               (IF frame.keys[1] = S_data THEN WithoutLeadingData(JoinedKey)
                ELSE JoinedKey)

\* the field named by the joined key carries cookie or header metadata
HasOriginMetadata ==
    /\ JoinedKey \in DOMAIN frame.fields
    /\ \/ truthy(frame.fields[JoinedKey].cookie)
       \/ truthy(frame.fields[JoinedKey].header)

\* C5: every message built from a non-empty key path carries a source, and
\* the source is query when the path is not body-sourced, the joined key is
\* no query parameter name and the field has no cookie or header metadata.
C5_Original ==
    MessageBuilt =>
        /\ "source" \in DOMAIN outcome.value
        /\ (/\ SourceOf(outcome.value) # BODY
            /\ JoinedKey \notin frame.query_params
            /\ ~HasOriginMetadata) => SourceOf(outcome.value) = QUERY

\* the call is about the declared field frame.keys[1], a ParameterKwarg field
DeclaredParameter ==
    /\ MessageBuilt
    /\ Len(frame.keys) = 1
    /\ frame.keys[1] \in DOMAIN frame.fields
    /\ frame.fields[frame.keys[1]].class = "ParameterKwarg"
CookieDeclared == truthy(frame.fields[frame.keys[1]].cookie)
HeaderDeclared ==
    truthy(frame.fields[frame.keys[1]].header) /\ ~CookieDeclared

----------------------------------------------------------------------------
(* SignatureModel.create.                                                  *)

\* the msgspec.Meta of a parameter: none without a KwargDefinition; the
\* cookie and header of a ParameterKwarg are no fields of Meta and go to extra
meta_data_of(kwarg_definition) ==
    IF kwarg_definition.class = "None" THEN NoMeta
    ELSE IF kwarg_definition.class = "ParameterKwarg"
    THEN Meta([k \in {"cookie", "header"} |->
                  IF k = "cookie" THEN kwarg_definition.cookie
                  ELSE kwarg_definition.header])
    ELSE Meta(<<>>)

ParsedSignature(parameters, return_type) ==
    [parameters |-> parameters, return_type |-> return_type]

\* _validate_signature_dependencies: a dependency name that names no
\* parameter is a configuration error; the dependency names otherwise
valid_signature_dependencies(dependency_name_set, parsed_signature) ==
    \A name \in dependency_name_set :
        \E i \in 1..Len(parsed_signature.parameters) :
            parsed_signature.parameters[i].name = name
_validate_signature_dependencies(dependency_name_set, parsed_signature) ==
    dependency_name_set

NotBuilt == [built |-> FALSE]

\* SignatureModel.create, the class defstruct returns
create(dependency_name_set, has_data_dto, parsed_signature, type_decoders) ==
    [built |-> TRUE,
     struct_fields |->
        [i \in 1..Len(parsed_signature.parameters) |->
            LET field_definition == parsed_signature.parameters[i]
            IN  [name |-> field_definition.name,
                 annotation |->
                     _create_annotation(field_definition, has_data_dto,
                                        meta_data_of(field_definition.kwarg_definition)),
                 default |-> IF field_definition.has_default
                             THEN field_definition.default ELSE NODEFAULT]],
     _return_annotation |-> parsed_signature.return_type,
     _dependency_name_set |->
        _validate_signature_dependencies(dependency_name_set, parsed_signature),
     _fields |-> parsed_signature.parameters]

\* SignatureModel.create, the types its _create_annotation calls decorate
create_decorated(has_data_dto, parsed_signature, type_decoders) ==
    UNION {decorated_types(parsed_signature.parameters[i], has_data_dto,
                           type_decoders \o DEFAULT_TYPE_DECODERS) :
              i \in 1..Len(parsed_signature.parameters)}

----------------------------------------------------------------------------
(* The handlers of an application: each is registered once, and then       *)
(* serves requests one after the other.                                    *)

\* most parameters a handler declares
MaxFields == 2

Idle == [op |-> "idle"]

\* a handler is registered: its signature model is built and the types of
\* its parameters get their decoders
Create(h, dependency_name_set, has_data_dto, parsed_signature, type_decoders) ==
    /\ frame = Idle
    /\ ~signature_models[h].built
    /\ valid_signature_dependencies(dependency_name_set, parsed_signature)
    /\ signature_models' =
           [signature_models EXCEPT
               ![h] = create(dependency_name_set, has_data_dto, parsed_signature,
                             type_decoders)]
    /\ type_decoder' =
           setattr_decoders(type_decoder,
                            create_decorated(has_data_dto, parsed_signature,
                                             type_decoders))
    /\ UNCHANGED <<frame, outcome>>
    /\ UNCHANGED logging_vars

\* a request for handler h: its kwargs, in the order of the dict, are coerced
Parse(h, connection, kwargs, order) ==
    /\ frame = Idle
    /\ signature_models[h].built
    /\ frame' = [op |-> "parse_values_from_connection_kwargs", handler |-> h,
                 connection |-> connection, kwargs |-> kwargs, order |-> order]
    /\ outcome' = parse_values_from_connection_kwargs(
                      signature_models[h], connection, kwargs, order, type_decoder)
    /\ UNCHANGED <<type_decoder, signature_models>>
    /\ UNCHANGED logging_vars

\* the caller takes the kwargs or the exception: the request is over
Respond ==
    /\ frame.op = "parse_values_from_connection_kwargs"
    /\ frame' = Idle
    /\ outcome' = Pending
    /\ UNCHANGED <<type_decoder, signature_models>>
    /\ UNCHANGED logging_vars

\* the inputs: the parameter names in the order of declaration
FieldNames == <<S_id, S_dep, S_data>>
OptionalInt == UnionAnnotation(<<TypeAnnotation("int"), NoneAnnotation>>)
\* what a parameter is declared as: x: int, x: Optional[int] = Parameter(default=None),
\* x: Custom, x: Dict[str, int] = Body()
FieldKinds ==
    {[annotation |-> TypeAnnotation("int"), has_default |-> FALSE,
      kwarg_definition |-> NoKwarg],
     [annotation |-> OptionalInt, has_default |-> TRUE,
      kwarg_definition |-> ParameterKwarg(S_empty, S_empty)],
     [annotation |-> TypeAnnotation("Custom"), has_default |-> FALSE,
      kwarg_definition |-> NoKwarg],
     [annotation |-> TypeAnnotation("dict"), has_default |-> FALSE,
      kwarg_definition |-> BodyKwarg]}
Increasing(f) == \A i, j \in DOMAIN f : i < j => f[i] < f[j]
NameChoices ==
    {f \in UNION {[1..n -> 1..Len(FieldNames)] : n \in 0..MaxFields} : Increasing(f)}
ParsedSignatures ==
    UNION {{ParsedSignature(
                [i \in DOMAIN names |->
                    FieldDefinition(FieldNames[names[i]], kinds[i].annotation,
                                    kinds[i].has_default, NoneValue,
                                    kinds[i].kwarg_definition)],
                AnyAnnotation) : kinds \in [DOMAIN names -> FieldKinds]} :
           names \in NameChoices}
HandlerRegistries == {<<>>, <<TypeDecoder({"Custom"}, "decA")>>}
HandlerDependencies == SUBSET {S_dep}

\* the raw values a request may hold for a parameter of an annotation: the
\* ones the annotation accepts and the ones that make its conversion fail
RECURSIVE RawValues(_)
RawValues(annotation) ==
    CASE annotation.kind = "Any" -> {Raw("str", "5")}
      [] annotation.kind = "Annotated" -> RawValues(annotation.arg)
      [] annotation.kind = "Union" ->
             UNION {RawValues(annotation.args[i]) : i \in 1..Len(annotation.args)}
      [] annotation.kind = "type" ->
             CASE annotation.type = "int" -> {Raw("str", "5"), Raw("str", "abc")}
               [] annotation.type = "NoneType" -> {NoneValue}
               [] annotation.type = "dict" -> {Raw("dict", "x=5"), Raw("dict", "x=abc")}
               [] OTHER -> RawStrings
HandlerConnections ==
    {Connection(TRUE, "GET", "/a", {S_id}) @@ [default_deserializer |-> "default_deserializer"],
     Connection(FALSE, "", "/a", {}) @@ [default_deserializer |-> "default_deserializer"]}
declared_names(model) == {model.struct_fields[i].name : i \in 1..Len(model.struct_fields)}
annotation_of(model, name) ==
    (CHOOSE f \in {model.struct_fields[i] : i \in 1..Len(model.struct_fields)} :
         f.name = name).annotation
\* the kwargs of a request: values for some of the parameters, and possibly
\* for a name that is no parameter
DeclaredKwargs(model) ==
    UNION {{k \in [D -> UNION {RawValues(annotation_of(model, name)) : name \in D}] :
               \A name \in D : k[name] \in RawValues(annotation_of(model, name))} :
           D \in SUBSET declared_names(model)}
KwargsOf(model) ==
    DeclaredKwargs(model)
        \cup {k @@ (S_x :> Raw("str", "5")) : k \in DeclaredKwargs(model)}
\* the keys of a dict in the order of declaration, and in the reverse order
Reverse(s) == [i \in 1..Len(s) |-> s[Len(s) + 1 - i]]
KeyOrders(kwargs) ==
    LET present(name) == name \in DOMAIN kwargs
        forward == SelectSeq(Append(FieldNames, S_x), present)
    IN  {forward, Reverse(forward)}

Handlers == {"A"}

Init ==
    /\ type_decoder = NoAttributes
    /\ signature_models = [h \in Handlers |-> NotBuilt]
    /\ frame = Idle
    /\ outcome = Pending
    /\ NoLogging

\* handlers are registered while no request is being served
Register ==
    /\ frame = Idle
    /\ \E h \in {g \in Handlers : ~signature_models[g].built} :
           \E d \in HandlerDependencies, dto \in BOOLEAN,
              s \in ParsedSignatures, r \in HandlerRegistries :
               Create(h, d, dto, s, r)

\* a request arrives for a registered handler
Request ==
    /\ frame = Idle
    /\ \E h \in {g \in Handlers : signature_models[g].built},
          c \in HandlerConnections :
           \E k \in KwargsOf(signature_models[h]) :
               \E o \in KeyOrders(k) : Parse(h, c, k, o)

Next == Register \/ Request \/ Respond

Spec == Init /\ [][Next]_vars

----------------------------------------------------------------------------
(* Claims about parse_values_from_connection_kwargs, under Spec.           *)

Parsed == frame.op = "parse_values_from_connection_kwargs"
ParsedModel == signature_models[frame.handler]
ParsedFields == ParsedModel.struct_fields

\* the declared field i of the request's handler fails to coerce: its value
\* is not convertible, or it is left out and has no default
FailsToCoerce(i) ==
    IF ParsedFields[i].name \in DOMAIN frame.kwargs
    THEN convert_value(frame.kwargs[ParsedFields[i].name],
                       ParsedFields[i].annotation, <<ParsedFields[i].name>>,
                       type_decoder, frame.connection.default_deserializer).kind
             = "raise"
    ELSE ParsedFields[i].default = NODEFAULT

\* C1: parse_values_from_connection_kwargs returns a mapping or raises a
\* ValidationException or an InternalServerException; no other exception
\* type leaves the call.
C1_Original ==
    Parsed =>
        \/ outcome.kind = "return"
        \/ /\ outcome.kind = "raise"
           /\ outcome.exception.type \in
                  {"ValidationException", "InternalServerException"}

\* C8: coercion is all-or-nothing: a returned mapping has exactly the
\* declared parameter names as keys (none for a handler without parameters),
\* with every omitted parameter mapped to its default, and no mapping is
\* returned when any declared field fails to coerce.
C8_AllOrNothing ==
    Parsed =>
        /\ outcome.kind = "return" =>
               /\ DOMAIN outcome.value = declared_names(ParsedModel)
               /\ \A i \in 1..Len(ParsedFields) :
                      ParsedFields[i].name \notin DOMAIN frame.kwargs =>
                          /\ ParsedFields[i].default # NODEFAULT
                          /\ outcome.value[ParsedFields[i].name]
                                 = ParsedFields[i].default
        /\ (\E i \in 1..Len(ParsedFields) : FailsToCoerce(i)) =>
               outcome.kind = "raise"
        /\ (Len(ParsedFields) = 0 /\ DOMAIN frame.kwargs = {}) =>
               (outcome.kind = "return" /\ DOMAIN outcome.value = {})

C8_Witness ==
    /\ Parsed
    /\ outcome.kind = "return"
    /\ Len(ParsedFields) = 2
    /\ S_x \in DOMAIN frame.kwargs
    /\ \E i \in 1..2 :
           /\ ParsedFields[i].name \notin DOMAIN frame.kwargs
           /\ outcome.value[ParsedFields[i].name] = NoneValue
    /\ \E i \in 1..2 :
           /\ ParsedFields[i].name \in DOMAIN frame.kwargs
           /\ outcome.value[ParsedFields[i].name].by = "msgspec"

\* the declared field i is required, is no dependency and is left out of the
\* kwargs of the request
LeftOut(i) ==
    /\ ParsedFields[i].default = NODEFAULT
    /\ ParsedFields[i].name \notin ParsedModel._dependency_name_set
    /\ ParsedFields[i].name \notin DOMAIN frame.kwargs

\* C9: when a required field that is no dependency is left out of the
\* kwargs, coercion raises a ValidationException whose message list has
\* exactly one entry keyed by the name of that field.
C9_Original ==
    Parsed =>
        \A i \in 1..Len(ParsedFields) :
            LeftOut(i) =>
                /\ outcome.kind = "raise"
                /\ outcome.exception.type = "ValidationException"
                /\ Cardinality({j \in 1..Len(outcome.exception.extra) :
                                   /\ "key" \in DOMAIN outcome.exception.extra[j]
                                   /\ outcome.exception.extra[j].key
                                          = ParsedFields[i].name}) = 1

----------------------------------------------------------------------------
(* SignatureModel.create, the translation of a KwargDefinition into the    *)
(* keyword arguments of msgspec.Meta.                                      *)

\* litestar.types.Empty, the value of a dataclass field that was never set
EmptyValue == Raw("EmptyType", "Empty")
Zero == Raw("int", "0")
Three == Raw("int", "3")
Five == Raw("int", "5")

\* bool(value) of the walrus tests: None and 0 are false
bool(value) == value \notin {NoneValue, Zero}

\* the fields of a KwargDefinition the model follows: a numeric constraint,
\* the two spellings of the least length, a field msgspec.Meta knows that is
\* no constraint, and a field of ParameterKwarg that Meta does not know
KwargFields == {"gt", "min_items", "min_length", "title", "header"}

\* hasattr(Meta, k): the attributes of msgspec.Meta
MetaAttributes ==
    {"gt", "ge", "lt", "le", "multiple_of", "pattern", "min_length",
     "max_length", "tz", "title", "description", "examples",
     "extra_json_schema", "extra"}
hasattr_Meta(k) == k \in MetaAttributes

\* simple_asdict(obj, exclude_empty=...): the fields of the dataclass, less
\* the ones that are Empty when exclude_empty is set
simple_asdict(obj, exclude_empty) ==
    [k \in {f \in DOMAIN obj : ~exclude_empty \/ obj[f] # EmptyValue} |-> obj[k]]

\* dict.pop(k, None): the value and the dict without the key
pop_value(d, k) == IF k \in DOMAIN d THEN d[k] ELSE NoneValue
pop_rest(d, k) == [j \in DOMAIN d \ {k} |-> d[j]]

\* meta_kwargs of SignatureModel.create: structural holds the keyword
\* arguments other than extra, extra the dict passed as extra
meta_kwargs_of(kwarg_definition) ==
    LET d0 == simple_asdict(kwarg_definition, TRUE)
        min_items == pop_value(d0, "min_items")
        d1 == pop_rest(d0, "min_items")
        max_items == pop_value(d1, "max_items")
        d2 == pop_rest(d1, "max_items")
        renamed ==
            [k \in {j \in {"min_length"} : bool(min_items)}
                       \cup {j \in {"max_length"} : bool(max_items)}
                |-> IF k = "min_length" THEN min_items ELSE max_items]
        direct == {k \in DOMAIN d2 : hasattr_Meta(k) /\ d2[k] # NoneValue}
    IN  [structural |->
             [k \in direct \cup DOMAIN renamed |->
                 IF k \in direct THEN d2[k] ELSE renamed[k]],
         extra |-> [k \in DOMAIN d2 \ direct |-> d2[k]]]

ConstraintValues == {EmptyValue, NoneValue, Zero, Three, Five}
KwargDefinitionObjects == [KwargFields -> ConstraintValues]

MetaInit ==
    /\ type_decoder = NoDecoders
    /\ signature_models = NoModels
    /\ outcome = Pending
    /\ \E kwarg_definition \in KwargDefinitionObjects :
           frame = [op |-> "meta_kwargs", kwarg_definition |-> kwarg_definition]
    /\ NoLogging

TranslateConstraints ==
    /\ frame.op = "meta_kwargs"
    /\ outcome = Pending
    /\ outcome' = Returned(meta_kwargs_of(frame.kwarg_definition))
    /\ UNCHANGED <<type_decoder, signature_models, frame>>
    /\ UNCHANGED logging_vars

MetaNext == TranslateConstraints

SpecMeta == MetaInit /\ [][MetaNext]_vars

----------------------------------------------------------------------------
(* Claims about the translation of constraints, under SpecMeta.            *)

Translated == frame.op = "meta_kwargs" /\ outcome.kind = "return"
RenamedKeys == {"min_items", "max_items"}
RenamedTo(k) == IF k = "min_items" THEN "min_length" ELSE "max_length"
NonEmpty(v) == v \notin {EmptyValue, NoneValue}
Carries(d, k, v) == k \in DOMAIN d /\ d[k] = v

\* C11: no constraint key with a non-empty value is lost: a key the
\* structural metadata knows (gt, ..., min_length, max_length) is in it with
\* its value, min_items and max_items are there as min_length and max_length
\* with their value (0 included), and every other key is in extra with its
\* value.
C11_Original ==
    Translated =>
        \A k \in DOMAIN frame.kwarg_definition :
            LET v == frame.kwarg_definition[k]
            IN  NonEmpty(v) =>
                    IF hasattr_Meta(k)
                    THEN Carries(outcome.value.structural, k, v)
                    ELSE IF k \in RenamedKeys
                    THEN Carries(outcome.value.structural, RenamedTo(k), v)
                    ELSE Carries(outcome.value.extra, k, v)

\* C12: a constraint key whose value is empty or none is neither among the
\* structural constraints nor in extra.
C12_Original ==
    Translated =>
        \A k \in DOMAIN frame.kwarg_definition :
            ~NonEmpty(frame.kwarg_definition[k]) =>
                /\ k \notin DOMAIN outcome.value.extra
                /\ k \notin DOMAIN outcome.value.structural

----------------------------------------------------------------------------
(* Two handlers of one application that declare parameters of the same     *)
(* types, each registered with a type-decoder registry of its own.         *)

SharedHandlers == {"A", "B"}
SharedTypes == {"Custom", "Path"}
\* each handler declares one required parameter, id: Custom or id: Path
SharedSignatures ==
    {ParsedSignature(<<FieldDefinition(S_id, TypeAnnotation(t), FALSE, NoneValue,
                                       NoKwarg)>>, AnyAnnotation) :
        t \in SharedTypes}

SharedInit ==
    /\ type_decoder = NoAttributes
    /\ signature_models = [h \in SharedHandlers |-> NotBuilt]
    /\ frame = Idle
    /\ outcome = Pending
    /\ NoLogging

SharedRegister ==
    /\ frame = Idle
    /\ \E h \in {g \in SharedHandlers : ~signature_models[g].built} :
           \E s \in SharedSignatures, r \in Registries : Create(h, {}, FALSE, s, r)

SharedRequest ==
    /\ frame = Idle
    /\ \E h \in {g \in SharedHandlers : signature_models[g].built},
          c \in HandlerConnections :
           \E k \in KwargsOf(signature_models[h]) :
               \E o \in KeyOrders(k) : Parse(h, c, k, o)

SharedNext == SharedRegister \/ SharedRequest \/ Respond

SpecShared == SharedInit /\ [][SharedNext]_vars

\* what every request for the built handler h would get, with the type
\* objects as attrs leaves them
Coercions(model, attrs) ==
    [c \in HandlerConnections |->
        [k \in KwargsOf(model) |->
            [o \in KeyOrders(k) |->
                parse_values_from_connection_kwargs(model, c, k, o, attrs)]]]

\* C13: a built signature model is never mutated: no later create and no
\* coercion changes the model of a handler built before, or the result of
\* coercing the same raw kwargs with it.
C13_Original ==
    [][\A h \in DOMAIN signature_models :
           signature_models[h].built =>
               /\ signature_models'[h] = signature_models[h]
               /\ Coercions(signature_models'[h], type_decoder')
                      = Coercions(signature_models[h], type_decoder)]_vars

----------------------------------------------------------------------------
(* LoggingMiddleware: one HTTP request going through the middleware.       *)

\* most http.response.body messages of one response
MaxBodies == 2

HTTP_RESPONSE_START == "http.response.start"
HTTP_RESPONSE_BODY == "http.response.body"
SCOPE_STATE_RESPONSE_COMPRESSED == "response_compressed"

\* an iterable of field names: a list, a tuple or a generator, and the
\* items it yields
Iterable(kind, items) == [kind |-> kind, items |-> items]
tuple(iterable) == Iterable("tuple", iterable.items)
\* the truth value of an iterable: a list or tuple is true when it has
\* items, a generator object is always true
iterable_truth(iterable) ==
    IF iterable.kind = "generator" THEN TRUE ELSE Len(iterable.items) > 0

\* a config whose iterables are kept as they were given
post_init_unconverted(config) == config

\* LoggingMiddlewareConfig.__post_init__: both field iterables become tuples
__post_init__(config) ==
    [config EXCEPT !.response_log_fields = tuple(@),
                   !.request_log_fields = tuple(@)]

LoggingMiddlewareConfig(request_log_fields, response_log_fields, include_compressed_body) ==
    __post_init__([request_log_fields |-> request_log_fields,
                   response_log_fields |-> response_log_fields,
                   include_compressed_body |-> include_compressed_body,
                   request_log_message |-> "HTTP Request",
                   response_log_message |-> "HTTP Response"])

\* the litestar state of the scope: a dict
set_litestar_scope_state(state, key, value) ==
    [k \in DOMAIN state \cup {key} |-> IF k = key THEN value ELSE state[k]]
get_litestar_scope_state(state, key, default) ==
    IF key \in DOMAIN state THEN state[key] ELSE default
pop_litestar_scope_state(state, key) == [k \in DOMAIN state \ {key} |-> state[k]]

\* None where a message is expected
NoneMessage == [type |-> "None"]

\* ResponseDataExtractor: the value of a field of (start message, body message)
response_extractor(messages, key) ==
    IF key = "status_code"
    THEN (IF messages[1] = NoneMessage THEN "None" ELSE messages[1].status)
    ELSE IF key = "body"
    THEN (IF messages[2] = NoneMessage THEN "None" ELSE messages[2].body)
    ELSE "None"

\* LoggingMiddleware.extract_response_data and log_message: the entry given
\* to the logger, and with it the two messages it was extracted from
logged_key(config, state, key) ==
    ~(/\ key = "body"
      /\ get_litestar_scope_state(state, SCOPE_STATE_RESPONSE_COMPRESSED, FALSE)
      /\ ~config.include_compressed_body)
extract_response_data(config, state) ==
    LET messages ==
            <<get_litestar_scope_state(state, HTTP_RESPONSE_START, NoneMessage),
              get_litestar_scope_state(state, HTTP_RESPONSE_BODY, NoneMessage)>>
        keys == [i \in 1..Len(config.response_log_fields.items) |->
                    <<config.response_log_fields.items[i],
                      logged_key(config, state, config.response_log_fields.items[i])>>]
        kept(pair) == pair[2]
        logged == SelectSeq(keys, kept)
    IN  [message |-> config.response_log_message,
         values |-> [i \in 1..Len(logged) |->
                        <<logged[i][1], response_extractor(messages, logged[i][1])>>],
         messages |-> messages]

\* LoggingMiddleware.extract_request_data and log_message: the entry of the
\* request, one value for each field
extract_request_data(config) ==
    [message |-> config.request_log_message,
     values |-> [i \in 1..Len(config.request_log_fields.items) |->
                    <<config.request_log_fields.items[i], "request">>],
     messages |-> <<NoneMessage, NoneMessage>>]

\* the messages of a response: the start and n body chunks
ResponseStart == [type |-> HTTP_RESPONSE_START, status |-> "200", body |-> "None"]
ResponseBody(i) == [type |-> HTTP_RESPONSE_BODY, status |-> "None", body |-> ToString(i)]
ResponseMessages(n) == <<ResponseStart>> \o [i \in 1..n |-> ResponseBody(i)]

RequestIterables ==
    {Iterable("list", <<>>), Iterable("generator", <<>>), Iterable("list", <<"path">>)}
ResponseIterables ==
    {Iterable("list", <<>>), Iterable("generator", <<>>),
     Iterable("list", <<"status_code">>), Iterable("generator", <<"body">>),
     Iterable("list", <<"status_code", "body">>)}

LoggingInit ==
    /\ type_decoder = NoDecoders
    /\ signature_models = NoModels
    /\ frame = [op |-> "idle"]
    /\ outcome = Pending
    /\ \E request_log_fields \in RequestIterables,
          response_log_fields \in ResponseIterables,
          include_compressed_body \in BOOLEAN, n \in 0..MaxBodies :
           middleware =
               [pc |-> "request",
                arguments |-> [request_log_fields |-> request_log_fields,
                               response_log_fields |-> response_log_fields],
                config |-> LoggingMiddlewareConfig(request_log_fields,
                                                   response_log_fields,
                                                   include_compressed_body),
                wrapped |-> FALSE,
                app_calls |-> 0,
                messages |-> ResponseMessages(n),
                to_send |-> ResponseMessages(n)]
    /\ scope_state \in [{SCOPE_STATE_RESPONSE_COMPRESSED} -> BOOLEAN]
    /\ logger = <<>>
    /\ sent = <<>>

\* LoggingMiddleware.__call__, up to the point where the next app runs
__call__ ==
    /\ middleware.pc = "request"
    /\ middleware' =
           [middleware EXCEPT
               !.pc = "app",
               !.wrapped = iterable_truth(middleware.config.response_log_fields),
               !.app_calls = @ + 1]
    /\ logger' = IF iterable_truth(middleware.config.request_log_fields)
                 THEN Append(logger, extract_request_data(middleware.config))
                 ELSE logger
    /\ UNCHANGED <<scope_state, sent>>
    /\ UNCHANGED signature_vars

\* send_wrapper(message).  With no recorded start message the extractor is
\* handed None for it: it either raises, and the message is not forwarded,
\* or yields None values (raises tells which).
send_wrapper(message, raises) ==
    LET recorded == set_litestar_scope_state(scope_state, message.type, message)
        popped == pop_litestar_scope_state(
                      pop_litestar_scope_state(recorded, HTTP_RESPONSE_START),
                      HTTP_RESPONSE_BODY)
        forwarded == [middleware EXCEPT !.to_send = Tail(@)]
    IN  IF message.type = HTTP_RESPONSE_START
        THEN /\ ~raises
             /\ scope_state' = recorded
             /\ logger' = logger
             /\ sent' = Append(sent, message)
             /\ middleware' = forwarded
        ELSE /\ raises => HTTP_RESPONSE_START \notin DOMAIN recorded
             /\ scope_state' = popped
             /\ IF raises
                THEN /\ logger' = logger
                     /\ sent' = sent
                     /\ middleware' = [middleware EXCEPT !.pc = "raised",
                                                         !.to_send = <<>>]
                ELSE /\ logger' = Append(logger,
                                         extract_response_data(middleware.config,
                                                               recorded))
                     /\ sent' = Append(sent, message)
                     /\ middleware' = forwarded

\* the next app sends its next message, through the wrapper when there is one
AppSend ==
    /\ middleware.pc = "app"
    /\ middleware.to_send # <<>>
    /\ IF middleware.wrapped
       THEN \E raises \in BOOLEAN : send_wrapper(Head(middleware.to_send), raises)
       ELSE /\ sent' = Append(sent, Head(middleware.to_send))
            /\ middleware' = [middleware EXCEPT !.to_send = Tail(@)]
            /\ UNCHANGED <<scope_state, logger>>
    /\ UNCHANGED signature_vars

\* the next app returns
AppReturn ==
    /\ middleware.pc = "app"
    /\ middleware.to_send = <<>>
    /\ middleware' = [middleware EXCEPT !.pc = "done"]
    /\ UNCHANGED <<scope_state, logger, sent>>
    /\ UNCHANGED signature_vars

LoggingNext == __call__ \/ AppSend \/ AppReturn

SpecLogging == LoggingInit /\ [][LoggingNext]_vars

----------------------------------------------------------------------------
(* Claims about the LoggingMiddleware, under SpecLogging.                  *)

Requested == middleware.pc # "none"
is_request_entry(entry) == entry.message = middleware.config.request_log_message
is_response_entry(entry) == entry.message = middleware.config.response_log_message
RequestEntries == SelectSeq(logger, is_request_entry)
ResponseEntries == SelectSeq(logger, is_response_entry)
EmptyGiven(iterable) == Len(iterable.items) = 0

\* C14: an empty iterable turns logging off: with empty request_log_fields
\* no request entry is emitted, with empty response_log_fields send is not
\* wrapped and no response entry is emitted, and the next app is still called
\* exactly once for the request.
C14_EmptyTurnsOff ==
    Requested =>
        /\ EmptyGiven(middleware.arguments.request_log_fields) =>
               RequestEntries = <<>>
        /\ EmptyGiven(middleware.arguments.response_log_fields) =>
               (~middleware.wrapped /\ ResponseEntries = <<>>)
        /\ (\/ EmptyGiven(middleware.arguments.request_log_fields)
            \/ EmptyGiven(middleware.arguments.response_log_fields)) =>
               /\ middleware.app_calls <= 1
               /\ middleware.pc # "request" => middleware.app_calls = 1

C14_Witness ==
    /\ middleware.pc = "done"
    /\ middleware.arguments.request_log_fields = Iterable("generator", <<>>)
    /\ middleware.arguments.response_log_fields = Iterable("generator", <<>>)
    /\ Len(middleware.messages) = 3
    /\ sent = middleware.messages
    /\ logger = <<>>
    /\ middleware.app_calls = 1

\* C16: for a response sent through the send wrapper as one start message
\* followed by one or more body messages, exactly one response entry is
\* emitted, built from the recorded start message and a recorded body
\* message, and every message is forwarded once, in order.
C16_Original ==
    (/\ middleware.pc \in {"done", "raised"}
     /\ middleware.wrapped
     /\ Len(middleware.messages) >= 2) =>
        /\ middleware.pc = "done"
        /\ Len(ResponseEntries) = 1
        /\ ResponseEntries[1].messages[1] = ResponseStart
        /\ \E i \in 2..Len(middleware.messages) :
               ResponseEntries[1].messages[2] = middleware.messages[i]
        /\ sent = middleware.messages

----------------------------------------------------------------------------
(* Claims about the per-field replay of parse_values_from_connection_kwargs, *)
(* under Spec.                                                             *)

\* the request ended in the replay: the conversion of the kwargs as a whole
\* failed with a plain ValidationError
Replayed ==
    /\ Parsed
    /\ LET converted == convert_struct(frame.kwargs, frame.order, ParsedFields,
                                       type_decoder,
                                       frame.connection.default_deserializer)
       IN  /\ converted.kind = "raise"
           /\ converted.exception.type = "ValidationError"

\* the failures of the fields converted one by one
FieldFailures ==
    _collect_errors(ParsedModel, frame.kwargs, type_decoder,
                    frame.connection.default_deserializer)

\* the declared field i does not fail on its own: it is left out and has a
\* default, or its value coerces
SucceedsAlone(i) ==
    IF ParsedFields[i].name \in DOMAIN frame.kwargs
    THEN ~FailsToCoerce(i)
    ELSE ParsedFields[i].default # NODEFAULT

HasEntryKeyed(messages, name) ==
    \E j \in 1..Len(messages) :
        "key" \in DOMAIN messages[j] /\ messages[j].key = name

\* C15: in the replay a field that does not fail on its own (left out with a
\* default, or supplied with a value that coerces) gets no error message,
\* whatever other fields fail.
C15_Original ==
    Replayed =>
        \A i \in 1..Len(ParsedFields) :
            SucceedsAlone(i) =>
                ~HasEntryKeyed(outcome.exception.extra, ParsedFields[i].name)

\* the message of one field's failure with the text of that failure
OwnMessage(failure) ==
    _build_error_message(
        fields_of(ParsedModel),
        IF re_search(failure.exc.text).match
        THEN <<failure.field_name, re_search(failure.exc.text).group>>
        ELSE <<failure.field_name>>,
        failure.exc.text, frame.connection.query_params)

\* C17: when two or more fields fail the replay with different failures,
\* the message of each field carries the text of that field's own failure, cut
\* at the first " - ".
C17_Original ==
    (/\ Replayed
     /\ \E i, j \in 1..Len(FieldFailures) :
            FieldFailures[i].exc.text # FieldFailures[j].exc.text) =>
        \A i \in 1..Len(FieldFailures) :
            is_client_error(OwnMessage(FieldFailures[i]),
                            ParsedModel._dependency_name_set) =>
                \E j \in 1..Len(outcome.exception.extra) :
                    outcome.exception.extra[j] = OwnMessage(FieldFailures[i])

====
